---- MODULE Spec2Model ----
(***************************************************************************)
(* HashTableLinearProbing<K,V> of SourceJZ.cpp: a fixed-capacity open      *)
(* addressing table with linear probing and lazy deletion.  The state is   *)
(* the object's fields (table, capacity, size); one action per public      *)
(* method (insert, retrieve, remove), each taken as a whole call.          *)
(***************************************************************************)
EXTENDS Integers, FiniteSets, Sequences, TLC

\* ---------------------------------------------------------------- bounds
MaxCapacity == 3        \* capacities 1..MaxCapacity are constructed
MaxHash     == 2        \* std::hash<K> yields a value in 0..MaxHash-1
MaxRemoved  == 2        \* size-- is explored down to size = -MaxRemoved

Keys   == {1, 2, 3}     \* the keys the callers use
Values == {1, 2}        \* the values the callers use
NoKey   == 0            \* key of a default-constructed Entry (never read)
NoValue == 0            \* value of a default-constructed Entry (never read)

VARIABLES
    capacity,   \* int capacity
    hashObj,    \* the function std::hash<K> computes
    table,      \* vector<Entry> table, indexed 0..capacity-1
    size,       \* int size
    last,       \* the call that just returned: method, arguments, outcome,
                \* the slot it ended on as it was before, the call before it
    inserted,   \* history: keys some insert has stored successfully
    liveKeys,   \* history: keys whose latest successful mutation is an insert
    M           \* the abstract map run beside the table: key -> value,
                \* NoValue for a key that is not in the map

vars == <<capacity, hashObj, table, size, last, inserted, liveKeys, M>>

\* ------------------------------------------------------------ struct Entry
\* Entry() : occupied(false), active(false) {}
EntryDefault ==
    [key |-> NoKey, value |-> NoValue, occupied |-> FALSE, active |-> FALSE]

\* Entry(K k, V v) : key(k), value(v), occupied(true), active(true) {}
EntryKV(k, v) ==
    [key |-> k, value |-> v, occupied |-> TRUE, active |-> TRUE]

\* int hashFunction(K key) const { return hashObj(key) % capacity; }
hashFunction(key) == hashObj[key] % capacity

\* ------------------------------------------------------------------ insert
\* Variant: the probe also stops at any inactive slot (any tombstone is free).
RECURSIVE InsertProbe_ReuseTombstone(_, _, _, _, _)
InsertProbe_ReuseTombstone(t, index, start_index, key, probes) ==
    IF t[index].occupied /\ t[index].active /\ t[index].key # key
    THEN LET next == (index + 1) % capacity
         IN  IF next = start_index
             THEN [full |-> TRUE, index |-> next, probes |-> probes]
             ELSE InsertProbe_ReuseTombstone(t, next, start_index, key,
                                             probes + 1)
    ELSE [full |-> FALSE, index |-> index, probes |-> probes]

\* Variant: the probe does not compare keys, it stops at an unwritten slot only.
RECURSIVE InsertProbe_NoKeyCheck(_, _, _, _, _)
InsertProbe_NoKeyCheck(t, index, start_index, key, probes) ==
    IF t[index].occupied
    THEN LET next == (index + 1) % capacity
         IN  IF next = start_index
             THEN [full |-> TRUE, index |-> next, probes |-> probes]
             ELSE InsertProbe_NoKeyCheck(t, next, start_index, key, probes + 1)
    ELSE [full |-> FALSE, index |-> index, probes |-> probes]

\* Variant: the key comparison is inverted (== for !=).
RECURSIVE InsertProbe_EqFlip(_, _, _, _, _)
InsertProbe_EqFlip(t, index, start_index, key, probes) ==
    IF t[index].occupied /\ t[index].key = key
    THEN LET next == (index + 1) % capacity
         IN  IF next = start_index
             THEN [full |-> TRUE, index |-> next, probes |-> probes]
             ELSE InsertProbe_EqFlip(t, next, start_index, key, probes + 1)
    ELSE [full |-> FALSE, index |-> index, probes |-> probes]

\* The while loop of insert, from `index` with the remembered start_index.
\* full = TRUE is the throw overflow_error; probes counts the slots examined.
RECURSIVE InsertProbe(_, _, _, _, _)
InsertProbe(t, index, start_index, key, probes) ==
    IF t[index].occupied /\ t[index].key # key
    THEN LET next == (index + 1) % capacity
         IN  IF next = start_index
             THEN [full |-> TRUE, index |-> next, probes |-> probes]
             ELSE InsertProbe(t, next, start_index, key, probes + 1)
    ELSE [full |-> FALSE, index |-> index, probes |-> probes]

\* Variant: the pair is also stored in the home slot, before the probe result
\* is used.
insertAt_StoresHomeToo(t, sz, key, value, p) ==
    IF p.full
    THEN [result |-> "TableFull", ret |-> NoValue, table |-> t, size |-> sz,
          index |-> p.index, probes |-> p.probes]
    ELSE [result |-> "ok", ret |-> NoValue,
          table |-> [t EXCEPT ![hashFunction(key)] = EntryKV(key, value),
                              ![p.index] = EntryKV(key, value)],
          size |-> sz, index |-> p.index, probes |-> p.probes]

\* void insert(K key, V value): the outcome and the fields after the call.
\* Line 56 assigns Entry(key, value), whose active flag is true, and line 57
\* then tests the flag of the slot just assigned.
\* p is where the probe loop ended.
insertAt(t, sz, key, value, p) ==
    IF p.full
    THEN [result |-> "TableFull", ret |-> NoValue, table |-> t, size |-> sz,
          index |-> p.index, probes |-> p.probes]
    ELSE LET t1 == [t EXCEPT ![p.index] = EntryKV(key, value)]
         IN  IF ~t1[p.index].active
             THEN [result |-> "ok", ret |-> NoValue,
                   table |-> [t1 EXCEPT ![p.index].active = TRUE],
                   size |-> sz + 1, index |-> p.index, probes |-> p.probes]
             ELSE [result |-> "ok", ret |-> NoValue, table |-> t1,
                   size |-> sz, index |-> p.index, probes |-> p.probes]

\* Variant: the probe starts one slot after the home slot.
insert_ProbeFromNext(t, sz, key, value) ==
    insertAt(t, sz, key, value,
             InsertProbe(t, (hashFunction(key) + 1) % capacity,
                         (hashFunction(key) + 1) % capacity, key, 1))

insert(t, sz, key, value) ==
    insertAt(t, sz, key, value,
             InsertProbe(t, hashFunction(key), hashFunction(key), key, 1))

\* ---------------------------------------------------------------- retrieve
\* Variant: the scan stops at an inactive slot as at an unwritten one.
RECURSIVE RetrieveProbe_StopAtTombstone(_, _, _, _, _)
RetrieveProbe_StopAtTombstone(t, index, start_index, key, probes) ==
    IF t[index].occupied /\ t[index].active
    THEN IF t[index].key = key
         THEN [found |-> TRUE, index |-> index, probes |-> probes]
         ELSE LET next == (index + 1) % capacity
              IN  IF next = start_index
                  THEN [found |-> FALSE, index |-> next, probes |-> probes]
                  ELSE RetrieveProbe_StopAtTombstone(t, next, start_index, key,
                                                     probes + 1)
    ELSE [found |-> FALSE, index |-> index, probes |-> probes]

\* Variant: the wrap test is made at the top of the loop body, on a second
\* visit of start_index.
RECURSIVE RetrieveProbe_LateWrapCheck(_, _, _, _, _)
RetrieveProbe_LateWrapCheck(t, index, start_index, key, probes) ==
    IF t[index].occupied
    THEN IF t[index].key = key /\ t[index].active
         THEN [found |-> TRUE, index |-> index, probes |-> probes]
         ELSE IF index = start_index /\ probes > 1
              THEN [found |-> FALSE, index |-> index, probes |-> probes]
              ELSE RetrieveProbe_LateWrapCheck(t, (index + 1) % capacity,
                                               start_index, key, probes + 1)
    ELSE [found |-> FALSE, index |-> index, probes |-> probes]

\* The while loop of retrieve; found = FALSE falls through to the throw.
RECURSIVE RetrieveProbe(_, _, _, _, _)
RetrieveProbe(t, index, start_index, key, probes) ==
    IF t[index].occupied
    THEN IF t[index].key = key /\ t[index].active
         THEN [found |-> TRUE, index |-> index, probes |-> probes]
         ELSE LET next == (index + 1) % capacity
              IN  IF next = start_index
                  THEN [found |-> FALSE, index |-> next, probes |-> probes]
                  ELSE RetrieveProbe(t, next, start_index, key, probes + 1)
    ELSE [found |-> FALSE, index |-> index, probes |-> probes]

\* V retrieve(K key): the value returned or the throw runtime_error, and the
\* fields after the call.  p is where the probe loop ended.
retrieveAt(t, sz, key, p) ==
    IF p.found
    THEN [result |-> "value", ret |-> t[p.index].value, table |-> t,
          size |-> sz, index |-> p.index, probes |-> p.probes]
    ELSE [result |-> "KeyNotFound", ret |-> NoValue, table |-> t,
          size |-> sz, index |-> p.index, probes |-> p.probes]

retrieve(t, sz, key) ==
    retrieveAt(t, sz, key,
               RetrieveProbe(t, hashFunction(key), hashFunction(key), key, 1))

\* ------------------------------------------------------------------ remove
\* Variant: the scan matches on the key alone, active or not.
RECURSIVE RemoveProbe_IgnoreActive(_, _, _, _, _)
RemoveProbe_IgnoreActive(t, index, start_index, key, probes) ==
    IF t[index].occupied
    THEN IF t[index].key = key
         THEN [found |-> TRUE, index |-> index, probes |-> probes]
         ELSE LET next == (index + 1) % capacity
              IN  IF next = start_index
                  THEN [found |-> FALSE, index |-> next, probes |-> probes]
                  ELSE RemoveProbe_IgnoreActive(t, next, start_index, key,
                                                probes + 1)
    ELSE [found |-> FALSE, index |-> index, probes |-> probes]

\* Variant: the scan stops at an inactive slot as at an unwritten one.
RECURSIVE RemoveProbe_StopAtTombstone(_, _, _, _, _)
RemoveProbe_StopAtTombstone(t, index, start_index, key, probes) ==
    IF t[index].occupied /\ t[index].active
    THEN IF t[index].key = key
         THEN [found |-> TRUE, index |-> index, probes |-> probes]
         ELSE LET next == (index + 1) % capacity
              IN  IF next = start_index
                  THEN [found |-> FALSE, index |-> next, probes |-> probes]
                  ELSE RemoveProbe_StopAtTombstone(t, next, start_index, key,
                                                   probes + 1)
    ELSE [found |-> FALSE, index |-> index, probes |-> probes]

\* The while loop of remove: the same scan as retrieve's.
RECURSIVE RemoveProbe(_, _, _, _, _)
RemoveProbe(t, index, start_index, key, probes) ==
    IF t[index].occupied
    THEN IF t[index].key = key /\ t[index].active
         THEN [found |-> TRUE, index |-> index, probes |-> probes]
         ELSE LET next == (index + 1) % capacity
              IN  IF next = start_index
                  THEN [found |-> FALSE, index |-> next, probes |-> probes]
                  ELSE RemoveProbe(t, next, start_index, key, probes + 1)
    ELSE [found |-> FALSE, index |-> index, probes |-> probes]

\* Variant: a removed slot is reset to a default Entry instead of deactivated.
removeAt_ClearsSlot(t, sz, key, p) ==
    IF p.found
    THEN [result |-> "true", ret |-> NoValue,
          table |-> [t EXCEPT ![p.index] = EntryDefault],
          size |-> sz - 1, index |-> p.index, probes |-> p.probes]
    ELSE [result |-> "false", ret |-> NoValue, table |-> t, size |-> sz,
          index |-> p.index, probes |-> p.probes]

\* Variant: size-- is outside the match branch.
removeAt_AlwaysDecrements(t, sz, key, p) ==
    IF p.found
    THEN [result |-> "true", ret |-> NoValue,
          table |-> [t EXCEPT ![p.index].active = FALSE],
          size |-> sz - 1, index |-> p.index, probes |-> p.probes]
    ELSE [result |-> "false", ret |-> NoValue, table |-> t,
          size |-> sz - 1, index |-> p.index, probes |-> p.probes]

\* bool remove(K key): the value returned and the fields after the call.
\* p is where the probe loop ended.
removeAt(t, sz, key, p) ==
    IF p.found
    THEN [result |-> "true", ret |-> NoValue,
          table |-> [t EXCEPT ![p.index].active = FALSE],
          size |-> sz - 1, index |-> p.index, probes |-> p.probes]
    ELSE [result |-> "false", ret |-> NoValue, table |-> t, size |-> sz,
          index |-> p.index, probes |-> p.probes]

remove(t, sz, key) ==
    removeAt(t, sz, key,
             RemoveProbe(t, hashFunction(key), hashFunction(key), key, 1))

\* ------------------------------------------------------------ state machine
\* hash<K> is some deterministic function of the key.  The methods only hash
\* keys and compare them for equality, so every hash function is a renaming
\* of the keys away from a non-decreasing one: those are the ones explored.
HashFunctions ==
    {h \in [Keys -> 0..(MaxHash - 1)] :
        \A j, k \in Keys : j <= k => h[j] <= h[k]}

\* HashTableLinearProbing(int capacity) : capacity(capacity), size(0),
\* table(capacity) {}   -- every slot a default-constructed Entry.
Init ==
    /\ capacity \in 1..MaxCapacity
    /\ hashObj \in HashFunctions
    /\ table = [i \in 0..(capacity - 1) |-> EntryDefault]
    /\ size = 0
    /\ last = [op |-> "none", key |-> NoKey, value |-> NoValue,
               result |-> "none", ret |-> NoValue,
               before |-> EntryDefault, follows |-> FALSE]
    /\ inserted = {}
    /\ liveKeys = {}
    /\ M = [k \in Keys |-> NoValue]

\* What the caller of the call just made can tell about it: the Entry the
\* call's slot held when the call began (EntryDefault when the call ended on
\* no slot), and whether the call before it stored the same key.
Before(t, r) ==
    IF r.result \in {"ok", "value", "true"} THEN t[r.index] ELSE EntryDefault

FollowsInsert(key) ==
    last.op = "insert" /\ last.result = "ok" /\ last.key = key

Insert ==
    \E key \in Keys, value \in Values :
        \E r \in {insert(table, size, key, value)} :
            /\ table' = r.table
            /\ size' = r.size
            /\ last' = [op |-> "insert", key |-> key, value |-> value,
                        result |-> r.result, ret |-> r.ret,
                        before |-> Before(table, r),
                        follows |-> FollowsInsert(key)]
            /\ inserted' = IF r.result = "ok" THEN inserted \cup {key}
                           ELSE inserted
            /\ liveKeys' = IF r.result = "ok" THEN liveKeys \cup {key}
                           ELSE liveKeys
            /\ M' = IF r.result = "ok" THEN [M EXCEPT ![key] = value] ELSE M
            /\ UNCHANGED <<capacity, hashObj>>

Retrieve ==
    \E key \in Keys :
        \E r \in {retrieve(table, size, key)} :
            /\ table' = r.table
            /\ size' = r.size
            /\ last' = [op |-> "retrieve", key |-> key, value |-> NoValue,
                        result |-> r.result, ret |-> r.ret,
                        before |-> Before(table, r),
                        follows |-> FollowsInsert(key)]
            /\ UNCHANGED <<capacity, hashObj, inserted, liveKeys, M>>

Remove ==
    \E key \in Keys :
        \E r \in {remove(table, size, key)} :
            /\ r.size >= -MaxRemoved
            /\ table' = r.table
            /\ size' = r.size
            /\ last' = [op |-> "remove", key |-> key, value |-> NoValue,
                        result |-> r.result, ret |-> r.ret,
                        before |-> Before(table, r),
                        follows |-> FollowsInsert(key)]
            /\ inserted' = inserted
            /\ liveKeys' = IF r.result = "true" THEN liveKeys \ {key}
                           ELSE liveKeys
            /\ M' = [M EXCEPT ![key] = NoValue]
            /\ UNCHANGED <<capacity, hashObj>>

Next == Insert \/ Retrieve \/ Remove

Spec == Init /\ [][Next]_vars

\* ------------------------------------------------------------- vocabulary
Slots == DOMAIN table

\* Slots that hold a live entry / a live entry for key k / any written entry.
ActiveSlots(t) == {i \in DOMAIN t : t[i].occupied /\ t[i].active}
ActiveHolding(t, k) == {i \in ActiveSlots(t) : t[i].key = k}
WrittenSlots(t) == {i \in DOMAIN t : t[i].occupied}

\* What a caller sees of retrieve(k) on the fields (t, sz).
OutcomeOf(r) == <<r.result, r.ret>>
Outcome(t, sz, k) == OutcomeOf(retrieve(t, sz, k))

TypeOK ==
    /\ capacity \in 1..MaxCapacity
    /\ hashObj \in HashFunctions
    /\ DOMAIN table = 0..(capacity - 1)
    /\ \A i \in Slots :
          /\ table[i].occupied \in BOOLEAN
          /\ table[i].active \in BOOLEAN
          /\ table[i].key \in Keys \cup {NoKey}
          /\ table[i].value \in Values \cup {NoValue}
    /\ size \in Int
    /\ last.op \in {"none", "insert", "retrieve", "remove"}
    /\ inserted \subseteq Keys
    /\ liveKeys \subseteq Keys
    /\ M \in [Keys -> Values \cup {NoValue}]

\* ---------------------------------------------------------------- claims

\* C1: in any reachable state, for every key K and value V, when insert(K, V)
\* returns without TableFull, a retrieve(K) made right after it returns V:
\* it neither fails with KeyNotFound nor returns an older value.  Stated for
\* the insert that just returned and for every insert that could be made next.
C1_RoundTrip ==
    /\ (last.op = "insert" /\ last.result = "ok")
          => Outcome(table, size, last.key) = <<"value", last.value>>
    /\ \A k \in Keys, v \in Values :
          LET i == insert(table, size, k, v)
          IN  i.result = "ok" => Outcome(i.table, i.size, k) = <<"value", v>>

\* C1 witness: an insert returned after replacing an older value of its key,
\* in a slot away from the key's home slot, the home slot being a tombstone
\* of another key that the following retrieve has to scan past.
C1_Witness ==
    /\ last.op = "insert" /\ last.result = "ok"
    /\ last.before.occupied /\ last.before.value # last.value
    /\ table[hashFunction(last.key)].key # last.key
    /\ ~table[hashFunction(last.key)].active

\* C2: size equals the number of slots that are occupied and active, which is
\* the number of keys whose latest successful mutating call was an insert.
C2_LiveCount ==
    /\ size = Cardinality(ActiveSlots(table))
    /\ Cardinality(ActiveSlots(table)) = Cardinality(liveKeys)

\* C3: the live counter stays within 0 <= size <= capacity.
C3_SizeRange == 0 <= size /\ size <= capacity

\* C4: inserting the same key K twice in a row, with values V1 then V2 and
\* both calls succeeding, leaves exactly one active slot holding K, and
\* retrieve(K) returns V2.
C4_Update ==
    (last.op = "insert" /\ last.result = "ok" /\ last.follows)
       => /\ Cardinality(ActiveHolding(table, last.key)) = 1
          /\ Outcome(table, size, last.key) = <<"value", last.value>>

\* C4 witness: the second of two successive inserts of one key returned, and
\* it replaced the live value V1 of the first by a different V2.
C4_Witness ==
    /\ last.op = "insert" /\ last.result = "ok" /\ last.follows
    /\ last.before.active /\ last.before.key = last.key
    /\ last.before.value # last.value

\* C5: a remove(K) that follows a successful insert(K, V) returns true; after
\* it retrieve(K) fails with KeyNotFound and a second remove(K) returns
\* false; and a key that is absent stays absent over every call that is not
\* a successful insert of that key.
C5_DeleteThenLookup ==
    [][ /\ (last'.op = "remove" /\ last'.follows)
            => /\ last'.result = "true"
               /\ retrieve(table', size', last'.key).result = "KeyNotFound"
               /\ remove(table', size', last'.key).result = "false"
        /\ \A k \in Keys :
             (/\ retrieve(table, size, k).result = "KeyNotFound"
              /\ ~(last'.op = "insert" /\ last'.key = k /\ last'.result = "ok"))
             => retrieve(table', size', k).result = "KeyNotFound"
      ]_vars

\* C5 witness: a remove(K) made right after a successful insert(K, V)
\* returned true, K being stored away from its home slot.
C5_Witness ==
    /\ last.op = "remove" /\ last.follows /\ last.result = "true"
    /\ last.before.key = last.key /\ last.before.active
    /\ table[hashFunction(last.key)].key # last.key

\* C6: for distinct keys K1 and K2, keys with the same home slot included, a
\* successful insert(K1, V) or a remove(K1) leaves the outcome of
\* retrieve(K2) as it was: the same value, or KeyNotFound as before.
C6_OtherKeysKept ==
    [][ \A k2 \in Keys :
          (/\ last'.key # k2
           /\ \/ last'.op = "insert" /\ last'.result = "ok"
              \/ last'.op = "remove")
          => Outcome(table', size', k2) = Outcome(table, size, k2)
      ]_vars

\* C6 witness: remove(K1) returned true where K1 sat in the home slot of a
\* live key K2, which is stored further along the probe path.
C6_Witness ==
    /\ last.op = "remove" /\ last.result = "true"
    /\ \E k2 \in Keys \ {last.key} :
          /\ hashFunction(k2) = hashFunction(last.key)
          /\ table[hashFunction(k2)].key = last.key
          /\ retrieve(table, size, k2).result = "value"

\* Every slot has been written and none stores key k.
AllWrittenWithout(t, k) ==
    \A i \in DOMAIN t : t[i].occupied /\ t[i].key # k

\* C7: insert(K, V) fails with TableFull exactly when, at the call, every
\* slot has been written (active or tombstoned) and none stores K; in every
\* other state it succeeds.
C7_TableFullIff ==
    [][ last'.op = "insert"
          => /\ last'.result \in {"ok", "TableFull"}
             /\ last'.result = "TableFull"
                   <=> AllWrittenWithout(table, last'.key)
      ]_vars

\* C7 witness: an insert failed with TableFull on a table of more than one
\* slot in which a tombstone is left.
C7_Witness ==
    /\ last.op = "insert" /\ last.result = "TableFull"
    /\ capacity > 1
    /\ \E i \in Slots : ~table[i].active

\* C8: at most capacity distinct keys are ever inserted successfully, however
\* many removes are interleaved; once capacity distinct keys have been
\* inserted, every insert of a further key fails with TableFull, then and in
\* every later state.
C8_CapacityCeiling ==
    /\ Cardinality(inserted) <= capacity
    /\ Cardinality(inserted) = capacity
          => \A k \in Keys \ inserted, v \in Values :
                insert(table, size, k, v).result = "TableFull"
    /\ (last.op = "insert" /\ last.result = "ok") => last.key \in inserted

\* C8 witness: capacity distinct keys were inserted, all of them removed
\* again, and the insert of a further key failed with TableFull.
C8_Witness ==
    /\ Cardinality(inserted) = capacity
    /\ capacity > 1
    /\ ActiveSlots(table) = {}
    /\ last.op = "insert" /\ last.result = "TableFull"
    /\ last.key \notin inserted

\* C9: remove(K) raises no error; it returns true exactly when some slot is
\* active and holds K, and then it turns that one slot's active flag to
\* false and lowers size by exactly 1, every key, value and occupied flag
\* staying as it was; otherwise it returns false.
C9_RemoveContract ==
    [][ last'.op = "remove"
          => /\ last'.result \in {"true", "false"}
             /\ last'.result = "true"
                   <=> ActiveHolding(table, last'.key) # {}
             /\ last'.result = "true"
                   => /\ \E i \in ActiveHolding(table, last'.key) :
                            table' = [table EXCEPT ![i].active = FALSE]
                      /\ size' = size - 1
      ]_vars

\* C9 witness: remove(K) returned true for a K stored away from its home
\* slot, past a tombstone.
C9_Witness ==
    /\ last.op = "remove" /\ last.result = "true"
    /\ table[hashFunction(last.key)].key # last.key
    /\ ~table[hashFunction(last.key)].active
    /\ last.before.active /\ last.before.key = last.key

\* C10: calls that report no change leave the table untouched: retrieve(K)
\* (a value or KeyNotFound), remove(K) returning false and insert(K, V)
\* failing with TableFull leave every slot and size as before the call.
C10_NoChange ==
    [][ (\/ last'.op = "retrieve"
         \/ last'.op = "remove" /\ last'.result = "false"
         \/ last'.op = "insert" /\ last'.result = "TableFull")
          => table' = table /\ size' = size
      ]_vars

\* C10 witness: a remove returned false on a table that holds a live entry
\* and a tombstone, after some remove had succeeded.
C10_Witness ==
    /\ last.op = "remove" /\ last.result = "false"
    /\ size < 0
    /\ ActiveSlots(table) # {}
    /\ WrittenSlots(table) # ActiveSlots(table)

\* C11: on every successful insert(K, V), size grows by exactly 1 when the
\* destination slot was Empty or a tombstone (active flag false) before the
\* call, and stays as it was when the slot held an active entry for K.
C11_InsertCounts ==
    [][ (last'.op = "insert" /\ last'.result = "ok")
          => size' = IF last'.before.active THEN size ELSE size + 1
      ]_vars

\* The slot at offset d of key k's probe path.
PathSlot(k, d) == (hashFunction(k) + d) % capacity

\* Offsets on k's probe path whose slot is inactive (Empty or a tombstone),
\* and offsets whose slot stores k.
InactiveOffsets(t, k) ==
    {d \in 0..(capacity - 1) : ~t[PathSlot(k, d)].active}
MatchOffsets(t, k) ==
    {d \in 0..(capacity - 1) :
        t[PathSlot(k, d)].occupied /\ t[PathSlot(k, d)].key = k}

Least(S) == CHOOSE d \in S : \A e \in S : d <= e

\* C12: insert takes an inactive slot on its probe path as reusable: its
\* probe stops at the first inactive slot it meets and (K, V) is written
\* there, whatever key that tombstone holds; retrieve and remove scan past
\* inactive slots to an active entry of their key.
C12_InsertReusesTombstone ==
    [][ /\ (/\ last'.op = "insert"
            /\ InactiveOffsets(table, last'.key) # {}
            /\ \A d \in MatchOffsets(table, last'.key) :
                  Least(InactiveOffsets(table, last'.key)) <= d)
           => /\ last'.result = "ok"
              /\ table'[PathSlot(last'.key,
                                 Least(InactiveOffsets(table, last'.key)))]
                    = EntryKV(last'.key, last'.value)
        /\ (last'.op \in {"retrieve", "remove"}
              /\ ActiveHolding(table, last'.key) # {})
           => last'.result \in {"value", "true"}
      ]_vars

\* C13: tombstoned slots that hold a different key are not accepted as insert
\* destinations -- a successful insert lands on a slot that was Empty or
\* stored its own key, and an insert that finds every slot written by other
\* keys fails with TableFull and leaves them written by other keys -- so
\* that insert can fail with TableFull while fewer than capacity entries are
\* active (the state of C13_Witness).
C13_TombstonesBlock ==
    /\ (last.op = "insert" /\ last.result = "ok")
          => (~last.before.occupied \/ last.before.key = last.key)
    /\ (last.op = "insert" /\ last.result = "TableFull")
          => AllWrittenWithout(table, last.key)
    /\ \A k \in Keys, v \in Values :
          (AllWrittenWithout(table, k)
             /\ Cardinality(ActiveSlots(table)) < capacity)
          => insert(table, size, k, v).result = "TableFull"

\* C13 witness: an insert has just failed with TableFull although fewer than
\* capacity slots are active: some slot is a tombstone of another key.
C13_Witness ==
    /\ last.op = "insert" /\ last.result = "TableFull"
    /\ Cardinality(ActiveSlots(table)) < capacity
    /\ \E i \in Slots : /\ table[i].occupied /\ ~table[i].active
                        /\ table[i].key # last.key

\* C14: in every reachable state no two active slots hold the same key.
C14_NoDuplicateActive ==
    \A i, j \in ActiveSlots(table) : table[i].key = table[j].key => i = j

\* C14 witness: a key was inserted again after its removal, while another key
\* is live and that key's own home slot holds a different key.
C14_Witness ==
    /\ last.op = "insert" /\ last.result = "ok"
    /\ last.before.occupied /\ ~last.before.active
    /\ Cardinality(ActiveSlots(table)) >= 2
    /\ table[hashFunction(last.key)].key # last.key

\* C15: every slot starts Empty (occupied and active both false); a slot that
\* has been written keeps its occupied flag in every later state, so it
\* never returns to Empty and only alternates between active and tombstone.
C15_SlotLifecycle ==
    /\ \A i \in Slots : table[i] = EntryDefault
    /\ [][ \A i \in Slots :
             /\ table[i].occupied => table'[i].occupied
             /\ table'[i].active => table'[i].occupied
             /\ ~table'[i].occupied => table'[i] = EntryDefault
         ]_vars

\* C15 witness: a slot that was written, then tombstoned, is active again,
\* next to a slot that is still a tombstone and one that is still Empty.
C15_Witness ==
    /\ last.op = "insert" /\ last.result = "ok"
    /\ last.before.occupied /\ ~last.before.active
    /\ \E i \in Slots : table[i].occupied /\ ~table[i].active
    /\ \E i \in Slots : ~table[i].occupied

\* How far slot s lies from key k's home slot along k's probe path.
Offset(k, s) == (s - hashFunction(k) + capacity) % capacity

\* C16: for every active slot S holding key K, every slot on the probe path
\* from home(K) up to but not including S is non-Empty, so that the scan
\* from home(K), which stops only at an Empty slot, reaches S.
C16_ProbePathWritten ==
    \A s \in ActiveSlots(table) :
        /\ \A d \in 0..(Offset(table[s].key, s) - 1) :
              table[PathSlot(table[s].key, d)].occupied
        /\ RetrieveProbe(table, hashFunction(table[s].key),
                         hashFunction(table[s].key), table[s].key, 1)
              = [found |-> TRUE, index |-> s,
                 probes |-> Offset(table[s].key, s) + 1]

\* C16 witness: an active slot lies before its key's home slot in index order
\* (its probe path wraps past the end of the table) and a tombstone lies on
\* that path.
C16_Witness ==
    \E s \in ActiveSlots(table) :
        /\ s < hashFunction(table[s].key)
        /\ \E d \in 0..(Offset(table[s].key, s) - 1) :
              ~table[PathSlot(table[s].key, d)].active

\* C17: a successful insert(K, V) changes exactly one slot, the destination,
\* which afterwards holds (K, V) with occupied and active both true; the
\* key, value, occupied and active fields of every other slot stay as they
\* were.
C17_InsertWritesOneSlot ==
    [][ (last'.op = "insert" /\ last'.result = "ok")
          => \E i \in Slots :
                /\ table' = [table EXCEPT
                                ![i] = EntryKV(last'.key, last'.value)]
                /\ table[i] = last'.before
      ]_vars

\* C17 witness: an insert stored its pair in an Empty slot away from the
\* key's home slot, two other slots being written.
C17_Witness ==
    /\ last.op = "insert" /\ last.result = "ok"
    /\ ~last.before.occupied
    /\ table[hashFunction(last.key)].key # last.key
    /\ Cardinality(WrittenSlots(table)) >= 3

\* C18: each call of insert, retrieve and remove ends after examining at most
\* capacity slots, for every capacity >= 1 and in every reachable state; in
\* the state where every slot has been written and the key is stored
\* nowhere, insert raises TableFull, retrieve raises KeyNotFound and remove
\* returns false, each after examining all capacity slots.
C18_ProbesBounded ==
    \A k \in Keys :
        /\ \A v \in Values :
              insert(table, size, k, v).probes \in 1..capacity
        /\ retrieve(table, size, k).probes \in 1..capacity
        /\ remove(table, size, k).probes \in 1..capacity
        /\ AllWrittenWithout(table, k)
              => /\ \A v \in Values :
                       /\ insert(table, size, k, v).result = "TableFull"
                       /\ insert(table, size, k, v).probes = capacity
                 /\ retrieve(table, size, k).result = "KeyNotFound"
                 /\ retrieve(table, size, k).probes = capacity
                 /\ remove(table, size, k).result = "false"
                 /\ remove(table, size, k).probes = capacity

\* C18 witness: a retrieve ended with KeyNotFound on a table of more than one
\* slot whose slots are all written, none with the key.
C18_Witness ==
    /\ last.op = "retrieve" /\ last.result = "KeyNotFound"
    /\ capacity > 1
    /\ AllWrittenWithout(table, last.key)

\* What the abstract map M answers to a lookup of k.
MapOutcome(k) ==
    IF M[k] # NoValue THEN <<"value", M[k]>> ELSE <<"KeyNotFound", NoValue>>

\* C19: the table refines the abstract map M (empty at first, M[K] = V on
\* each successful insert(K, V), K deleted on each remove(K)): after any
\* sequence of calls retrieve(K) returns M[K] when K is in M and fails with
\* KeyNotFound when it is not, and remove(K) returns true exactly when K is
\* in M.
C19_RefinesMap ==
    /\ \A k \in Keys :
          /\ Outcome(table, size, k) = MapOutcome(k)
          /\ remove(table, size, k).result = "true" <=> M[k] # NoValue
    /\ last.op = "retrieve" => <<last.result, last.ret>> = MapOutcome(last.key)

\* C19 witness: a retrieve returned the value M holds for a key stored past
\* the tombstone of a key that was inserted and is no longer in M.
C19_Witness ==
    /\ last.op = "retrieve" /\ last.result = "value"
    /\ M[last.key] = last.ret
    /\ \E j \in inserted :
          /\ M[j] = NoValue
          /\ table[hashFunction(last.key)].key = j

\* C20: slot keys are write-once: a slot written with key K stores K in every
\* later state (insert overwrites only an Empty slot or a slot that stores
\* the same key), so at most one written slot, active or tombstoned, stores
\* any given key.
C20_KeysWriteOnce ==
    [][ /\ \A i \in Slots :
              table[i].occupied => table'[i].key = table[i].key
        /\ \A i, j \in WrittenSlots(table') :
              table'[i].key = table'[j].key => i = j
      ]_vars

\* C20 witness: an insert wrote over the tombstone of its own key, reached
\* past the tombstone of another key.
C20_Witness ==
    /\ last.op = "insert" /\ last.result = "ok"
    /\ last.before.occupied /\ ~last.before.active
    /\ last.before.key = last.key
    /\ table[hashFunction(last.key)].key # last.key
    /\ ~table[hashFunction(last.key)].active

====
